---- MODULE Spec2Model ----
(***************************************************************************)
(* Model of the two slide-deck scripts.                                    *)
(*                                                                         *)
(*   remove_transcript.py  reads slides.md, drops the lines the regex      *)
(*                         ^(\^|^autoscale:) finds, writes codes.md.       *)
(*   update_time.py        reads slides.md, maps foo over the lines, then  *)
(*                         rewrites the start time of the timed lines from *)
(*                         a running clock and overwrites slides.md.       *)
(*                                                                         *)
(* A line is a sequence of one-character strings, a file a sequence of     *)
(* lines (each ending in "\n", as file.readlines() returns them).  The     *)
(* regular expressions are evaluated character by character.  Python's     *)
(* None is the empty tuple and an integer n is <<n>>, so that the          *)
(* truthiness test "if time:" can tell None, 0 and a positive integer      *)
(* apart.                                                                  *)
(***************************************************************************)
EXTENDS Integers, Sequences, FiniteSets, TLC

VARIABLES
    slides,        \* contents of slides.md
    codes,         \* contents of codes.md
    rt_pc,         \* remove_transcript.py: position in the script
    rt_lines,      \* remove_transcript.py: lines
    rt_new_lines,  \* remove_transcript.py: new_lines
    pc,            \* update_time.py: position in the script
    read_lines,    \* update_time.py: the list file.readlines() returned
    timed_lines,   \* update_time.py: timed_lines, as far as map has built it
    current_time,  \* update_time.py: current_time (None before line 15)
    new_lines,     \* update_time.py: new_lines
    stdout,        \* what the runs of update_time.py printed, one entry per run
    written,       \* what the runs of update_time.py wrote to slides.md, in order
    run,           \* number of the current run of update_time.py
    fmt_pc,        \* rendering of one clock value: position
    fmt_clock,     \* rendering of one clock value: the clock
    fmt_out        \* rendering of one clock value: the text

rt_vars  == <<codes, rt_pc, rt_lines, rt_new_lines>>
ut_vars  == <<pc, read_lines, timed_lines, current_time, new_lines, stdout, written, run>>
fmt_vars == <<fmt_pc, fmt_clock, fmt_out>>
vars     == <<slides, rt_vars, ut_vars, fmt_vars>>

----------------------------------------------------------------------------
(* Bounds *)

MaxLines == 3
MaxRuns  == 2
MaxClock == 3700

----------------------------------------------------------------------------
(* Python values *)

None    == <<>>
Some(n) == <<n>>
Val(o)  == o[1]

\* Python truthiness of a value that is None or an int.
Truthy(o) == o # None /\ Val(o) # 0

----------------------------------------------------------------------------
(* Characters and decimal numbers *)

Digit == <<"0", "1", "2", "3", "4", "5", "6", "7", "8", "9">>

IsDigit(c) == \E d \in 1..10 : Digit[d] = c

DigitVal(c) == (CHOOSE d \in 1..10 : Digit[d] = c) - 1

\* int(s) for a non-empty string of decimal digits
RECURSIVE int(_)
int(s) == IF Len(s) = 0 THEN 0
          ELSE 10 * int(SubSeq(s, 1, Len(s) - 1)) + DigitVal(s[Len(s)])

\* "%d" % n for n >= 0
RECURSIVE FmtD(_)
FmtD(n) == IF n < 10 THEN <<Digit[n + 1]>>
           ELSE FmtD(n \div 10) \o <<Digit[(n % 10) + 1]>>

\* mutant: "%d" in place of "%02d"
Fmt02DUnpadded(n) == FmtD(n)

\* "%02d" % n for n >= 0: at least two characters, padded with zeros
Fmt02D(n) == IF Len(FmtD(n)) < 2 THEN <<"0">> \o FmtD(n) ELSE FmtD(n)

\* "%d:%02d" % (minutes, seconds) with minutes = current_time / 60 and
\* seconds = current_time % 60 (Python 2: / on ints is floor division)
Render(clock) ==
    LET minutes == clock \div 60
        seconds == clock % 60
    IN  FmtD(minutes) \o <<":">> \o Fmt02D(seconds)

----------------------------------------------------------------------------
(* Regular expressions.  A position is the index of the next character to  *)
(* read; 0 is "no match".  Every [0-9]+ of the patterns is followed by a   *)
(* character that is no digit or by the end of the pattern, so the greedy  *)
(* run of digits is the only way it can match.                             *)

\* a literal at pos
MatchLit(line, pos, lit) ==
    IF pos = 0 \/ pos + Len(lit) - 1 > Len(line) THEN 0
    ELSE IF \A k \in 1..Len(lit) : line[pos + k - 1] = lit[k]
         THEN pos + Len(lit)
         ELSE 0

RECURSIVE DigitRun(_, _)
DigitRun(line, pos) ==
    IF pos <= Len(line) /\ IsDigit(line[pos]) THEN DigitRun(line, pos + 1) ELSE pos

\* [0-9]+ at pos
MatchDigits(line, pos) ==
    IF pos = 0 THEN 0
    ELSE LET e == DigitRun(line, pos) IN IF e > pos THEN e ELSE 0

Caret == <<"^", " ", "(">>

\* re.search(r"^\^ \(([0-9]+):([0-9]+), ([0-9]+):([0-9]+)\)", line):
\* None, or the four groups and the position after the match
TimedMatch(line) ==
    LET p0 == MatchLit(line, 1, Caret)
        p1 == MatchDigits(line, p0)
        p2 == MatchLit(line, p1, <<":">>)
        p3 == MatchDigits(line, p2)
        p4 == MatchLit(line, p3, <<",", " ">>)
        p5 == MatchDigits(line, p4)
        p6 == MatchLit(line, p5, <<":">>)
        p7 == MatchDigits(line, p6)
        p8 == MatchLit(line, p7, <<")">>)
    IN  IF p8 = 0 THEN None
        ELSE Some([g1 |-> SubSeq(line, p0, p1 - 1),
                   g2 |-> SubSeq(line, p2, p3 - 1),
                   g3 |-> SubSeq(line, p4, p5 - 1),
                   g4 |-> SubSeq(line, p6, p7 - 1),
                   end |-> p8])

\* re.search(r"^\^ \(", line) as a truth value
PrefixMatch(line) == MatchLit(line, 1, Caret) # 0

\* mutant: the pattern also swallows the rest of the line (a trailing .*)
StartSubDropRest(repl, line) ==
    LET p0 == MatchLit(line, 1, Caret)
        p1 == MatchDigits(line, p0)
        p2 == MatchLit(line, p1, <<":">>)
        p3 == MatchDigits(line, p2)
    IN  IF p3 = 0 THEN line
        ELSE repl \o SubSeq(line, Len(line), Len(line))

\* re.sub(r"^\^ \(([0-9]+):([0-9]+)", repl, line): the match at the start
\* of the line, if there is one, is replaced by repl; the rest is kept
StartSub(repl, line) ==
    LET p0 == MatchLit(line, 1, Caret)
        p1 == MatchDigits(line, p0)
        p2 == MatchLit(line, p1, <<":">>)
        p3 == MatchDigits(line, p2)
    IN  IF p3 = 0 THEN line
        ELSE repl \o SubSeq(line, p3, Len(line))

Autoscale == <<"a", "u", "t", "o", "s", "c", "a", "l", "e", ":">>

\* mutant: the autoscale: alternative is missing
MarkerMatchCaretOnly(line) == MatchLit(line, 1, <<"^">>) # 0

\* re.search(r"^(\^|^autoscale:)", line) as a truth value
MarkerMatch(line) ==
    \/ MatchLit(line, 1, <<"^">>) # 0
    \/ MatchLit(line, 1, Autoscale) # 0

----------------------------------------------------------------------------
(* update_time.py: foo and the body of the loop *)

ErrorText == <<"E", "R", "R", "O", "R", ":", " ">>

\* mutant: groups 1 and 2 (the start time) in place of groups 3 and 4
FooTimeFromStart(line) ==
    LET m == TimedMatch(line)
    IN  IF m # None
        THEN Some(int(Val(m).g1) * 60 + int(Val(m).g2))
        ELSE None

\* the time foo returns
FooTime(line) ==
    LET m == TimedMatch(line)
    IN  IF m # None
        THEN Some(int(Val(m).g3) * 60 + int(Val(m).g4))
        ELSE None

\* mutant: else in place of elif, every unmatched line is reported
FooPrintAnyUnmatched(line) ==
    IF TimedMatch(line) # None THEN <<>>
    ELSE <<ErrorText \o line \o <<"\n">>>>

\* what foo prints: print("ERROR: " + line) writes the text and a newline
FooPrint(line) ==
    IF TimedMatch(line) # None THEN <<>>
    ELSE IF PrefixMatch(line) THEN <<ErrorText \o line \o <<"\n">>>>
    ELSE <<>>

foo(line) == [time |-> FooTime(line), line |-> line]

\* mutant: the substitution is applied to every line, timed or not
LoopLineAlwaysSub(time, line, clock) == StartSub(Caret \o Render(clock), line)

\* the line the loop body appends to new_lines
LoopLine(time, line, clock) ==
    IF Truthy(time)
    THEN StartSub(Caret \o Render(clock), line)
    ELSE line

\* mutant: current_time = time in place of current_time += time
LoopClockAssign(time, clock) ==
    IF Truthy(time) THEN Val(time) ELSE clock

\* current_time after the loop body
LoopClock(time, clock) ==
    IF Truthy(time) THEN clock + Val(time) ELSE clock

----------------------------------------------------------------------------
(* Documents *)

SomeLines ==
    { <<"^"," ","(","0",":","0","0",","," ","1",":","3","0",")"," ","i","n","t","r","o","\n">>,
      <<"^"," ","(","1","2",":","3","4",","," ","0","1",":","5",")"," ","x","\n">>,
      <<"^"," ","(","5",":","0","0",","," ","0",":","0","0",")","\n">>,
      <<"^"," ","(","1",":","2",","," ","a","b","c",")","\n">>,
      <<"^"," ","(","3",":","0","0",","," ","1",":","0","0","\n">>,
      <<"^"," ","n","o","t","e","\n">>,
      <<"a","u","t","o","s","c","a","l","e",":"," ","t","r","u","e","\n">>,
      <<" ","^"," ","(","0",":","0","0",","," ","1",":","3","0",")","\n">> }

Documents == UNION { [1..n -> SomeLines] : n \in 0..MaxLines }

----------------------------------------------------------------------------
(* remove_transcript.py *)

\* lines 3-5: read slides.md and filter it
RtRead ==
    /\ rt_pc = "start"
    /\ rt_lines' = slides
    /\ rt_new_lines' = SelectSeq(slides, LAMBDA line : ~MarkerMatch(line))
    /\ rt_pc' = "write"
    /\ UNCHANGED <<slides, codes, ut_vars, fmt_vars>>

\* lines 7-8: write codes.md
RtWrite ==
    /\ rt_pc = "write"
    /\ codes' = rt_new_lines
    /\ rt_pc' = "done"
    /\ UNCHANGED <<slides, rt_lines, rt_new_lines, ut_vars, fmt_vars>>

----------------------------------------------------------------------------
(* update_time.py *)

\* lines 12-14: new_lines = [], open slides.md, file.readlines()
UtRead ==
    /\ pc = "start"
    /\ new_lines' = <<>>
    /\ read_lines' = slides
    /\ timed_lines' = <<>>
    /\ pc' = "map"
    /\ UNCHANGED <<slides, current_time, stdout, written, run, rt_vars, fmt_vars>>

\* line 14: map calls foo on the next line (Python 2: map builds the whole
\* list before the loop starts)
UtFoo ==
    /\ pc = "map"
    /\ Len(timed_lines) < Len(read_lines)
    /\ LET line == read_lines[Len(timed_lines) + 1]
       IN  /\ timed_lines' = Append(timed_lines, foo(line))
           /\ stdout' = [stdout EXCEPT ![run] = @ \o FooPrint(line)]
    /\ UNCHANGED <<slides, pc, read_lines, current_time, new_lines, written, run,
                   rt_vars, fmt_vars>>

\* line 15: current_time = 0
UtClock ==
    /\ pc = "map"
    /\ Len(timed_lines) = Len(read_lines)
    /\ current_time' = Some(0)
    /\ pc' = "loop"
    /\ UNCHANGED <<slides, read_lines, timed_lines, new_lines, stdout, written, run,
                   rt_vars, fmt_vars>>

\* lines 16-23: one iteration of the loop
UtLoop ==
    /\ pc = "loop"
    /\ Len(new_lines) < Len(timed_lines)
    /\ LET t == timed_lines[Len(new_lines) + 1]
       IN  /\ new_lines' = Append(new_lines, LoopLine(t.time, t.line, Val(current_time)))
           /\ current_time' = Some(LoopClock(t.time, Val(current_time)))
    /\ UNCHANGED <<slides, pc, read_lines, timed_lines, stdout, written, run,
                   rt_vars, fmt_vars>>

\* the loop and the first with block end
UtLoopEnd ==
    /\ pc = "loop"
    /\ Len(new_lines) = Len(timed_lines)
    /\ pc' = "write"
    /\ UNCHANGED <<slides, read_lines, timed_lines, current_time, new_lines, stdout,
                   written, run, rt_vars, fmt_vars>>

\* mutant: slides.md is written from inside the loop
UtWriteEarly ==
    /\ pc = "loop"
    /\ slides' = new_lines
    /\ written' = Append(written, new_lines)
    /\ pc' = "done"
    /\ UNCHANGED <<read_lines, timed_lines, current_time, new_lines, stdout, run,
                   rt_vars, fmt_vars>>

\* lines 25-26: overwrite slides.md
UtWrite ==
    /\ pc = "write"
    /\ slides' = new_lines
    /\ written' = Append(written, new_lines)
    /\ pc' = "done"
    /\ UNCHANGED <<read_lines, timed_lines, current_time, new_lines, stdout, run,
                   rt_vars, fmt_vars>>

\* the script is started again, on the file as it is now
UtAgain ==
    /\ pc = "done"
    /\ run < MaxRuns
    /\ run' = run + 1
    /\ stdout' = Append(stdout, <<>>)
    /\ pc' = "start"
    /\ read_lines' = <<>>
    /\ timed_lines' = <<>>
    /\ new_lines' = <<>>
    /\ current_time' = None
    /\ UNCHANGED <<slides, written, rt_vars, fmt_vars>>

----------------------------------------------------------------------------

Init ==
    /\ slides \in Documents
    /\ codes = <<>>
    /\ rt_pc = "start"
    /\ rt_lines = <<>>
    /\ rt_new_lines = <<>>
    /\ pc = "start"
    /\ read_lines = <<>>
    /\ timed_lines = <<>>
    /\ current_time = None
    /\ new_lines = <<>>
    /\ stdout = << <<>> >>
    /\ written = <<>>
    /\ run = 1
    /\ fmt_pc = "idle"
    /\ fmt_clock = 0
    /\ fmt_out = <<>>

Next ==
    \/ RtRead
    \/ RtWrite
    \/ UtRead
    \/ UtFoo
    \/ UtClock
    \/ UtLoop
    \/ UtLoopEnd
    \/ UtWrite
    \/ UtAgain

Spec == Init /\ [][Next]_vars

----------------------------------------------------------------------------
(* The rendering of the clock on its own: lines 18-20 for one clock value *)

FmtInit ==
    /\ slides = <<>>
    /\ codes = <<>>
    /\ rt_pc = "done"
    /\ rt_lines = <<>>
    /\ rt_new_lines = <<>>
    /\ pc = "done"
    /\ read_lines = <<>>
    /\ timed_lines = <<>>
    /\ current_time = None
    /\ new_lines = <<>>
    /\ stdout = << <<>> >>
    /\ written = <<>>
    /\ run = MaxRuns
    /\ fmt_pc = "start"
    /\ fmt_clock \in 0..MaxClock
    /\ fmt_out = <<>>

FmtRender ==
    /\ fmt_pc = "start"
    /\ fmt_out' = Render(fmt_clock)
    /\ fmt_pc' = "done"
    /\ UNCHANGED <<slides, rt_vars, ut_vars, fmt_clock>>

FmtNext == FmtRender

FmtSpec == FmtInit /\ [][FmtNext]_vars

----------------------------------------------------------------------------
(* What the claims speak of, stated apart from the scripts' own steps *)

HasPrefix(line, prefix) ==
    Len(line) >= Len(prefix) /\ SubSeq(line, 1, Len(prefix)) = prefix

\* the line matches the four-field pattern ^ (M1:S1, M2:S2)
IsTimed(line) == TimedMatch(line) # None

\* M2*60+S2 of a line that matches
Duration(line) ==
    LET m == Val(TimedMatch(line)) IN int(m.g3) * 60 + int(m.g4)

\* the line starts with ^ ( and does not match the four-field pattern
IsMalformed(line) == HasPrefix(line, Caret) /\ ~IsTimed(line)

\* the sum of the durations of the timed lines among the first k lines
RECURSIVE SumDur(_, _)
SumDur(doc, k) ==
    IF k = 0 THEN 0
    ELSE SumDur(doc, k - 1) + (IF IsTimed(doc[k]) THEN Duration(doc[k]) ELSE 0)

\* the line from its first comma on (empty when it has none)
FromComma(line) ==
    IF \A i \in 1..Len(line) : line[i] # "," THEN <<>>
    ELSE LET c == CHOOSE i \in 1..Len(line) :
                      line[i] = "," /\ \A j \in 1..(i - 1) : line[j] # ","
         IN  SubSeq(line, c, Len(line))

\* a timed line with its start time replaced by the display of clock
Rewritten(line, clock) == Caret \o Render(clock) \o FromComma(line)

\* the lines the filter is to keep
Kept(doc) ==
    SelectSeq(doc, LAMBDA line : ~HasPrefix(line, <<"^">>) /\ ~HasPrefix(line, Autoscale))

\* the diagnostics of the malformed lines among the first k lines, in order
RECURSIVE Diagnostics(_, _)
Diagnostics(doc, k) ==
    IF k = 0 THEN <<>>
    ELSE Diagnostics(doc, k - 1)
         \o (IF IsMalformed(doc[k]) THEN <<ErrorText \o doc[k] \o <<"\n">>>> ELSE <<>>)

AllDigits(s) == \A i \in 1..Len(s) : IsDigit(s[i])

----------------------------------------------------------------------------
(* Claims *)

\* C1: when update_time.py is done, every input line that matches the
\* four-field pattern has, at the same position of the output, its start
\* time replaced by the display of the clock, the clock being the sum of
\* M2*60+S2 over the timed lines before it.
C1_EveryTimedLineRewritten ==
    pc = "done" =>
        \A i \in 1..Len(read_lines) :
            IsTimed(read_lines[i]) =>
                new_lines[i] = Rewritten(read_lines[i], SumDur(read_lines, i - 1))

\* C2: the filter's new_lines, and codes.md once written, are exactly the
\* input lines, in order, that neither start with ^ nor with autoscale:.
C2_FilterComplete ==
    /\ rt_pc \in {"write", "done"} => rt_new_lines = Kept(rt_lines)
    /\ rt_pc = "done" => codes = Kept(rt_lines)

C2_Witness ==
    /\ rt_pc = "done"
    /\ codes # <<>>
    /\ \E i \in 1..Len(rt_lines) : HasPrefix(rt_lines[i], Autoscale)
    /\ \E i \in 1..Len(rt_lines) : HasPrefix(rt_lines[i], <<"^">>)

C3_ClockValue ==
    /\ pc \in {"start", "map"} => current_time = None
    /\ pc \in {"loop", "write", "done"} =>
           current_time = Some(SumDur(read_lines, Len(new_lines)))

C3_ClockStep ==
    (current_time # None /\ current_time' # None) =>
        /\ Val(current_time') >= Val(current_time)
        /\ Val(current_time') # Val(current_time) =>
               /\ pc = "loop"
               /\ Len(new_lines) < Len(read_lines)
               /\ IsTimed(read_lines[Len(new_lines) + 1])
               /\ Val(current_time') =
                      Val(current_time) + Duration(read_lines[Len(new_lines) + 1])

\* C3: the clock starts at 0, never decreases, changes only in the step
\* that processes a line matching the four-field pattern, then by exactly
\* M2*60+S2 of that line, and after k lines is the sum of M2*60+S2 over the
\* timed lines among them (after the last line: over the whole document).
C3_ClockAdvance == [](C3_ClockValue) /\ [][C3_ClockStep]_vars

C3_Witness ==
    /\ pc = "done"
    /\ Len(read_lines) >= 3
    /\ IsTimed(read_lines[1])
    /\ ~IsTimed(read_lines[2])
    /\ IsTimed(read_lines[3])
    /\ Val(current_time) = Duration(read_lines[1]) + Duration(read_lines[3])
    /\ Duration(read_lines[1]) > 0
    /\ Duration(read_lines[3]) > 0

\* C4: a malformed line (starts with ^ ( but does not match) is output
\* unchanged at its position, the clock after it is the clock before it,
\* and every later timed line is rewritten with the clock accumulated from
\* the timed lines before it.
C4_MalformedLeavesScanIntact ==
    pc \in {"loop", "write", "done"} =>
        \A i \in 1..Len(new_lines) :
            IsMalformed(read_lines[i]) =>
                /\ new_lines[i] = read_lines[i]
                /\ Len(new_lines) = i =>
                       current_time = Some(SumDur(read_lines, i - 1))
                /\ \A j \in (i + 1)..Len(new_lines) :
                       IsTimed(read_lines[j]) =>
                           new_lines[j] =
                               Rewritten(read_lines[j], SumDur(read_lines, j - 1))

\* C5: what a run has printed after foo has seen k lines is exactly one
\* diagnostic per malformed line among them, in document order, each the
\* text "ERROR: " followed by the line (and the newline print ends with);
\* nothing is printed for a timed line or a line that does not start with ^ (.
C5_DiagnosticsExact ==
    /\ Len(stdout) = run
    /\ stdout[run] = Diagnostics(read_lines, Len(timed_lines))

C5_Witness ==
    /\ pc = "done"
    /\ Len(stdout[run]) = 2
    /\ stdout[run][1] # stdout[run][2]
    /\ \E i \in 1..Len(read_lines) : IsTimed(read_lines[i])

\* C6: the output never has more lines than the input and has as many once
\* the loop has ended; every line that does not match the four-field
\* pattern is the input line at the same index; slides.md is that output.
C6_LengthAndPassthrough ==
    /\ Len(new_lines) <= Len(read_lines)
    /\ pc \in {"write", "done"} => Len(new_lines) = Len(read_lines)
    /\ \A i \in 1..Len(new_lines) :
           ~IsTimed(read_lines[i]) => new_lines[i] = read_lines[i]
    /\ pc = "done" => slides = new_lines

C6_Witness ==
    /\ pc = "done"
    /\ Len(slides) >= 3
    /\ \E i \in 1..Len(read_lines) : IsMalformed(read_lines[i])
    /\ \E i \in 1..Len(read_lines) : HasPrefix(read_lines[i], Autoscale)
    /\ \E i \in 1..Len(read_lines) :
           IsTimed(read_lines[i]) /\ new_lines[i] # read_lines[i]

\* C7: the output line of a timed line still starts with ^ (, is the input
\* line from the comma on, and still matches the pattern with the same
\* duration.
C7_OnlyStartFieldTouched ==
    \A i \in 1..Len(new_lines) :
        IsTimed(read_lines[i]) =>
            /\ HasPrefix(new_lines[i], Caret)
            /\ FromComma(new_lines[i]) = FromComma(read_lines[i])
            /\ IsTimed(new_lines[i])
            /\ Duration(new_lines[i]) = Duration(read_lines[i])

C7_Witness ==
    \E i \in 1..Len(new_lines) :
        /\ IsTimed(read_lines[i])
        /\ new_lines[i] # read_lines[i]
        /\ Len(FromComma(read_lines[i])) > 10

\* C8: the text rendered for a clock c is minutes, a colon and seconds:
\* the seconds exactly two digits with value c mod 60 (in 0..59), the
\* minutes in decimal without a leading zero with value c div 60, so that
\* minutes*60 + seconds = c; 65 renders 1:05, 0 renders 0:00 and 3600
\* renders 60:00.
C8_DisplayRendering ==
    fmt_pc = "done" =>
        LET colon == CHOOSE i \in 1..Len(fmt_out) : fmt_out[i] = ":"
            mins  == SubSeq(fmt_out, 1, colon - 1)
            secs  == SubSeq(fmt_out, colon + 1, Len(fmt_out))
        IN  /\ \E i \in 1..Len(fmt_out) : fmt_out[i] = ":"
            /\ Len(secs) = 2
            /\ AllDigits(secs)
            /\ int(secs) \in 0..59
            /\ int(secs) = fmt_clock % 60
            /\ Len(mins) >= 1
            /\ AllDigits(mins)
            /\ Len(mins) > 1 => mins[1] # "0"
            /\ int(mins) = fmt_clock \div 60
            /\ int(mins) * 60 + int(secs) = fmt_clock
            /\ fmt_clock = 65 => fmt_out = <<"1", ":", "0", "5">>
            /\ fmt_clock = 0 => fmt_out = <<"0", ":", "0", "0">>
            /\ fmt_clock = 3600 => fmt_out = <<"6", "0", ":", "0", "0">>

C8_Witness ==
    /\ fmt_pc = "done"
    /\ fmt_clock = 3605
    /\ fmt_out = <<"6", "0", ":", "0", "5">>

\* C9: slides.md is read whole before any line is processed, the lines are
\* processed from left to right, and a run writes slides.md once, when
\* every line has been processed, with the complete output.
C9_ReadScanWrite ==
    /\ Len(written) = (IF pc = "done" THEN run ELSE run - 1)
    /\ pc \in {"map", "loop", "write"} => read_lines = slides
    /\ Len(timed_lines) <= Len(read_lines)
    /\ \A i \in 1..Len(timed_lines) : timed_lines[i].line = read_lines[i]
    /\ Len(new_lines) <= Len(timed_lines)
    /\ pc = "done" =>
           /\ Len(new_lines) = Len(read_lines)
           /\ written[run] = new_lines
           /\ slides = new_lines

C9_Witness ==
    /\ pc = "done"
    /\ Len(read_lines) >= 3
    /\ slides # read_lines

\* C10: a second run of update_time.py on the output of the first writes
\* the same document and prints the same diagnostics.
C10_Idempotent ==
    (run >= 2 /\ pc = "done") =>
        /\ written[run] = written[run - 1]
        /\ stdout[run] = stdout[run - 1]

C10_Witness ==
    /\ run = 2
    /\ pc = "done"
    /\ stdout[run] # <<>>
    /\ Val(current_time) > 0
    /\ \E i \in 2..Len(read_lines) :
           IsTimed(read_lines[i]) /\ Duration(read_lines[i]) > 0
                                  /\ SumDur(read_lines, i - 1) > 0

====
